---- MODULE Spec2Model ----
(***************************************************************************)
(* xorfs: a FUSE filesystem that serves plain disk images reconstructed    *)
(* from a base image and chains of xored images (src/xorfs.c).             *)
(*                                                                         *)
(* Strings are sequences of one-character strings; C offsets are 0-based   *)
(* and At(s, off) is the character s[off], NUL at the terminator.          *)
(* unsigned int values are pairs <<lo, hi>> of 16-bit limbs and long       *)
(* values are four such limbs (two's complement), so that the 32-bit and   *)
(* 64-bit widths of the C types are kept exactly.                          *)
(***************************************************************************)
EXTENDS Integers, Sequences, FiniteSets, TLC

VARIABLES
    dir,            \* the source directory: sequence of directory entries in readdir order
    dirpos,         \* number of entries readdir() has already returned
    pc,             \* position of main(): "scan", "link", "serving", "exited", "crashed"
    files,          \* xorfs_source_files.files (the array's records)
    count,          \* xorfs_source_files.count
    freed,          \* TRUE once xorfs_source_files.files has been free()d
    handles,        \* FILE handles that are currently open (by directory index)
    return_value,   \* result of xorfs_open_source_files, -1 while it runs
    li,             \* index of the link loop (0-based)
    fpos,           \* file position of each FILE handle
    thr,            \* the FUSE worker threads and the read request each one serves
    reply           \* last answer of a getattr / readdir request

vars == <<dir, dirpos, pc, files, count, freed, handles, return_value, li, fpos, thr, reply>>

(***************************************************************************)
(* Bounds of the model                                                     *)
(***************************************************************************)
MaxFiles == 3       \* directory entries in a scanned directory
MaxStem == 5        \* characters before ".xor" in an enumerated file name
MaxLen == 2         \* bytes stored in one source file
StackLimit == 5     \* stack frames of xorfs_read_backup a worker thread can hold

(***************************************************************************)
(* Characters and strings                                                  *)
(***************************************************************************)
NUL == "NUL"

At(s, off) == IF off >= 0 /\ off < Len(s) THEN s[off + 1] ELSE NUL

IsDigit(c) == c \in {"0", "1", "2", "3", "4", "5", "6", "7", "8", "9"}

IsSpace(c) == c \in {" "}

DigitVal(c) ==
    CASE c = "0" -> 0 [] c = "1" -> 1 [] c = "2" -> 2 [] c = "3" -> 3
      [] c = "4" -> 4 [] c = "5" -> 5 [] c = "6" -> 6 [] c = "7" -> 7
      [] c = "8" -> 8 [] c = "9" -> 9

DigitChar(d) == <<"0", "1", "2", "3", "4", "5", "6", "7", "8", "9">>[d + 1]

XORFS_SOURCE_FILE_EXTENSION == <<".", "x", "o", "r">>

DAT_EXTENSION == <<".", "d", "a", "t">>

XORFS_DEBUG_FILE_NAME == <<"d", "e", "b", "u", "g", ".", "i", "n", "f", "o">>

\* strcmp(last_four_characters, ".xor") == 0 with last_four_characters > d_name
EndsWithExtension(name) ==
    /\ Len(name) > Len(XORFS_SOURCE_FILE_EXTENSION)
    /\ SubSeq(name, Len(name) - 3, Len(name)) = XORFS_SOURCE_FILE_EXTENSION

(***************************************************************************)
(* Fixed-width numbers                                                     *)
(***************************************************************************)
Limb == 256 * 256

U32(n) == <<n % Limb, n \div Limb>>

ZeroLong == <<0, 0, 0, 0>>

LONG_MAX == <<Limb - 1, Limb - 1, Limb - 1, (Limb \div 2) - 1>>

LONG_MIN == <<0, 0, 0, Limb \div 2>>

RECURSIVE MulAddLimbs(_, _, _, _)
\* limbs k.. of l * 10 + carry appended to out; ovf when a carry leaves the top limb
MulAddLimbs(l, k, carry, out) ==
    IF k > Len(l) THEN [l |-> out, ovf |-> carry > 0]
    ELSE MulAddLimbs(l, k + 1, (l[k] * 10 + carry) \div Limb,
                     Append(out, (l[k] * 10 + carry) % Limb))

\* acc * 10 + d on four limbs; ovf is set once the result has left 64 bits
MulAdd10(acc, d) ==
    [MulAddLimbs(acc.l, 1, d, <<>>) EXCEPT !.ovf = @ \/ acc.ovf]

RECURSIVE Accumulate(_, _, _, _)
\* the magnitude of the digit run s[from .. to) (0-based offsets)
Accumulate(s, from, to, acc) ==
    IF from >= to THEN acc
    ELSE Accumulate(s, from + 1, to, MulAdd10(acc, DigitVal(At(s, from))))

RECURSIVE DigitRunEnd(_, _)
DigitRunEnd(s, off) == IF IsDigit(At(s, off)) THEN DigitRunEnd(s, off + 1) ELSE off

RECURSIVE SkipSpace(_, _)
SkipSpace(s, off) == IF IsSpace(At(s, off)) THEN SkipSpace(s, off + 1) ELSE off

RECURSIVE NegLimbs(_, _, _, _)
NegLimbs(l, k, carry, out) ==
    IF k > Len(l) THEN out
    ELSE NegLimbs(l, k + 1, ((Limb - 1 - l[k]) + carry) \div Limb,
                  Append(out, ((Limb - 1 - l[k]) + carry) % Limb))

\* two's complement negation on four limbs
NegLong(l) == NegLimbs(l, 1, 1, <<>>)

\* strtol(s + nptr, &end, 10) of glibc: optional white space, optional sign,
\* a maximal run of decimal digits.  Without any digit the value is 0, end
\* is nptr and errno is left alone; out of range saturates and sets ERANGE.
\* the result of a conversion whose digit run [q, e) has magnitude mag
Converted(nptr, neg, q, e, mag) ==
    IF e = q THEN [value |-> ZeroLong, end |-> nptr, erange |-> FALSE]
    ELSE IF neg
    THEN IF mag.ovf \/ (mag.l[4] >= Limb \div 2 /\ mag.l # LONG_MIN)
         THEN [value |-> LONG_MIN, end |-> e, erange |-> TRUE]
         ELSE [value |-> NegLong(mag.l), end |-> e, erange |-> FALSE]
    ELSE IF mag.ovf \/ mag.l[4] >= Limb \div 2
         THEN [value |-> LONG_MAX, end |-> e, erange |-> TRUE]
         ELSE [value |-> mag.l, end |-> e, erange |-> FALSE]

DigitRun(s, nptr, neg, q, e) ==
    Converted(nptr, neg, q, e, Accumulate(s, q, e, [l |-> ZeroLong, ovf |-> FALSE]))

Signed(s, nptr, p) ==
    DigitRun(s, nptr, At(s, p) = "-", IF At(s, p) \in {"+", "-"} THEN p + 1 ELSE p,
             DigitRunEnd(s, IF At(s, p) \in {"+", "-"} THEN p + 1 ELSE p))

StrToL(s, nptr) == Signed(s, nptr, SkipSpace(s, nptr))

\* (int) number, stored into an unsigned int: the low 32 bits
LongToUInt(l) == <<l[1], l[2]>>

(***************************************************************************)
(* struct xorfs_backup and the file-name parser                            *)
(***************************************************************************)
NULL == 0

\* the "Safe-fill the structure" values
EmptyBackup ==
    [name |-> <<>>, number |-> U32(0), xor_against_number |-> U32(0),
     xor_against_source_file |-> NULL, time |-> 0, output_file_name |-> <<>>]

RECURSIVE FindFirstNumber(_, _)
\* offset of the first decimal digit, -1 when the scan reaches the last
\* character without finding one
FindFirstNumber(name, off) ==
    IF IsDigit(At(name, off)) THEN off
    ELSE IF off = Len(name) - 1 THEN -1
    ELSE FindFirstNumber(name, off + 1)

\* "Then the rest of the name", "Verify that we ended on a '.'" and
\* "Construct output file name"; `second` is strtol's result after the 'x'
ParseRest(file_name, named, xOrDot, second) ==
    IF At(file_name, xOrDot) = "x"
    THEN IF second.erange THEN [rv |-> 5, crash |-> FALSE, backup |-> named]
         ELSE IF At(file_name, second.end) # "."
         THEN [rv |-> 5, crash |-> FALSE,
               backup |-> [named EXCEPT !.xor_against_number = LongToUInt(second.value)]]
         ELSE [rv |-> 0, crash |-> FALSE,
               backup |-> [named EXCEPT !.xor_against_number = LongToUInt(second.value),
                                        !.output_file_name =
                                            SubSeq(file_name, 1, xOrDot) \o DAT_EXTENSION]]
    ELSE IF At(file_name, xOrDot) = "."
    THEN [rv |-> 0, crash |-> FALSE,
          backup |-> [named EXCEPT !.output_file_name =
                                       SubSeq(file_name, 1, xOrDot) \o DAT_EXTENSION]]
    ELSE [rv |-> 5, crash |-> FALSE, backup |-> named]

\* "Copy name" and "Read first number"; `first` is strtol's result
ParseNumber(file_name, first_number_offset, first) ==
    ParseRest(file_name,
              [EmptyBackup EXCEPT !.name = SubSeq(file_name, 1, first_number_offset - 1),
                                  !.number = LongToUInt(first.value)],
              first.end,
              StrToL(file_name, first.end + 1))

ParseFrom(file_name, first_number_offset) ==
    IF first_number_offset < 0 THEN [rv |-> 5, crash |-> FALSE, backup |-> EmptyBackup]
    ELSE IF first_number_offset = 0 THEN [rv |-> 5, crash |-> TRUE, backup |-> EmptyBackup]
    ELSE ParseNumber(file_name, first_number_offset, StrToL(file_name, first_number_offset))

\* "Parse file name": rv is 0 on success and 5 on a malformed name; crash is
\* set when the name starts with a digit, where strncpy is called with the
\* length -1 and writes far beyond the zero-byte allocation
ParseName(file_name) == ParseFrom(file_name, FindFirstNumber(file_name, 0))

(***************************************************************************)
(* The source directory                                                    *)
(***************************************************************************)
\* a directory entry with the file behind it: d_name, d_type, whether fopen
\* succeeds, the stored bytes and st_mtime
Dirent(name, d_type, readable, data, mtime) ==
    [name |-> name, d_type |-> d_type, readable |-> readable,
     data |-> data, mtime |-> mtime]

RegularFile(name, data, mtime) == Dirent(name, "DT_REG", TRUE, data, mtime)

\* a directory holds each file name once
DistinctNames(d) == \A i, j \in 1..Len(d) : d[i].name = d[j].name => i = j

(***************************************************************************)
(* xorfs_open_source_files, on the record                                  *)
(*   [files, count, freed, handles, return_value, pc]                      *)
(***************************************************************************)
EmptyBuild ==
    [files |-> <<>>, count |-> 0, freed |-> FALSE, handles |-> {},
     return_value |-> -1, pc |-> "scan"]

\* fclose()s every non-NULL file_descriptor and free()s the array; count and
\* the files pointer are left as they are
xorfs_close_source_files(B) ==
    [B EXCEPT !.handles = B.handles \
                  {B.files[i].file_descriptor : i \in 1..B.count},
              !.freed = TRUE]

\* goto failure_close_files; main() then returns 1
FailBuild(B, rv) ==
    [xorfs_close_source_files(B) EXCEPT !.return_value = rv, !.pc = "exited"]

\* "Filter out unwanted entries"
Ignored(entry) ==
    \/ entry.d_type \notin {"DT_REG", "DT_UNKNOWN"}
    \/ ~EndsWithExtension(entry.name)

SafeFilled ==
    [name |-> <<>>, file_descriptor |-> NULL, stat |-> [st_size |-> 0, st_mtime |-> 0],
     backup |-> EmptyBackup]

\* "Get backup information" for the entry at `index`
FillEntry(B, index, entry, parsed) ==
    IF parsed.crash THEN [B EXCEPT !.pc = "crashed"]
    ELSE IF parsed.rv # 0
    THEN FailBuild([B EXCEPT !.files[index].backup = parsed.backup], parsed.rv)
    ELSE [B EXCEPT !.files[index].backup = [parsed.backup EXCEPT !.time = entry.mtime]]

\* "Obtain the file descriptor", "Copy name string", "Get stat info"
OpenEntry(B, k, entry) ==
    IF ~entry.readable THEN FailBuild(B, 3)
    ELSE FillEntry([B EXCEPT !.files[B.count].file_descriptor = k,
                             !.files[B.count].name = entry.name,
                             !.files[B.count].stat =
                                 [st_size |-> Len(entry.data), st_mtime |-> entry.mtime],
                             !.handles = B.handles \cup {k}],
                   B.count, entry, ParseName(entry.name))

\* the body of the readdir loop for directory entry k
ProcessEntry(B, k, entry) ==
    IF Ignored(entry) THEN B
    ELSE OpenEntry([B EXCEPT !.files = Append(B.files, SafeFilled),
                             !.count = B.count + 1], k, entry)

RECURSIVE FirstMatch(_, _, _)
\* the lowest index from `index` up to `cnt` that satisfies Match, or NULL
FirstMatch(Match(_), index, cnt) ==
    IF index > cnt THEN NULL
    ELSE IF Match(index) THEN index
    ELSE FirstMatch(Match, index + 1, cnt)

get_source_file_by_backup_name_and_number(B, requested_name, requested_number) ==
    LET Match(i) == /\ B.files[i].backup.number = requested_number
                    /\ B.files[i].backup.name = requested_name
    IN  FirstMatch(Match, 1, B.count)

\* one iteration of "Check backup links and fill the pointers" (index is 1-based)
LinkTo(B, index, xor_against_source_file) ==
    IF B.files[index].backup.xor_against_number = U32(0)
    THEN [B EXCEPT !.files[index].backup.xor_against_source_file = NULL]
    ELSE IF xor_against_source_file # NULL
    THEN [B EXCEPT !.files[index].backup.xor_against_source_file = xor_against_source_file]
    ELSE FailBuild(B, 6)

LinkEntry(B, index) ==
    LinkTo(B, index,
           get_source_file_by_backup_name_and_number(
               B, B.files[index].backup.name, B.files[index].backup.xor_against_number))

\* return 0; main() creates the debug file and enters fuse_main
Succeed(B) == [B EXCEPT !.return_value = 0, !.pc = "serving"]

RECURSIVE ScanFrom(_, _, _)
ScanFrom(B, d, k) ==
    IF B.pc # "scan" THEN B
    ELSE IF k > Len(d) THEN [B EXCEPT !.pc = "link"]
    ELSE ScanFrom(ProcessEntry(B, k, d[k]), d, k + 1)

RECURSIVE LinkFrom(_, _)
LinkFrom(B, index) ==
    IF B.pc # "link" THEN B
    ELSE IF index > B.count THEN Succeed(B)
    ELSE LinkFrom(LinkEntry(B, index), index + 1)

\* the whole of xorfs_open_source_files on directory d
Build(d) == LinkFrom(ScanFrom(EmptyBuild, d, 1), 1)

(***************************************************************************)
(* The build, one directory entry at a time                                *)
(***************************************************************************)
Current ==
    [files |-> files, count |-> count, freed |-> freed, handles |-> handles,
     return_value |-> return_value, pc |-> pc]

Become(B) ==
    /\ files' = B.files
    /\ count' = B.count
    /\ freed' = B.freed
    /\ handles' = B.handles
    /\ return_value' = B.return_value
    /\ pc' = B.pc

\* readdir() returns the next entry and the loop body runs on it
ReadDirEntry ==
    /\ pc = "scan"
    /\ dirpos < Len(dir)
    /\ dirpos' = dirpos + 1
    /\ Become(ProcessEntry(Current, dirpos + 1, dir[dirpos + 1]))
    /\ UNCHANGED <<dir, li, fpos, thr, reply>>

\* readdir() returns NULL
EndOfDirectory ==
    /\ pc = "scan"
    /\ dirpos = Len(dir)
    /\ pc' = "link"
    /\ UNCHANGED <<dir, dirpos, files, count, freed, handles, return_value, li, fpos,
                   thr, reply>>

LinkStep ==
    /\ pc = "link"
    /\ li < count
    /\ li' = li + 1
    /\ Become(LinkEntry(Current, li + 1))
    /\ UNCHANGED <<dir, dirpos, fpos, thr, reply>>

BuildDone ==
    /\ pc = "link"
    /\ li = count
    /\ Become(Succeed(Current))
    /\ UNCHANGED <<dir, dirpos, li, fpos, thr, reply>>

(***************************************************************************)
(* Lookup, readdir, getattr                                                *)
(***************************************************************************)
ENOENT == 2
EIO == 5
ENOMEM == 12

xorfs_get_source_file_by_file_name(requested_name) ==
    LET Match(i) == files[i].backup.output_file_name = requested_name
    IN  FirstMatch(Match, 1, count)

\* the names filler() receives for "/" after "." and "..", in order
RootListing ==
    [i \in 1..(count + 1) |->
        IF i <= count THEN files[i].backup.output_file_name ELSE XORFS_DEBUG_FILE_NAME]

\* the paths (without the leading slash) a request may name: every exposed
\* name, every source file name and one name that nothing carries
RequestNames ==
    {files[i].backup.output_file_name : i \in 1..count}
        \cup {files[i].name : i \in 1..count}
        \cup {<<"n", "o", "n", "e">>}

xorfs_operation_readdir ==
    /\ pc = "serving"
    /\ reply' = [op |-> "readdir", path |-> <<"/">>, result |-> 0, names |-> RootListing]
    /\ UNCHANGED <<dir, dirpos, pc, files, count, freed, handles, return_value, li, fpos, thr>>

\* getattr on "/<name>" for a source file or an unknown name
Attributes(name, source_file) ==
    IF source_file # NULL
    THEN [op |-> "getattr", path |-> name, result |-> 0,
          st_size |-> files[source_file].stat.st_size,
          st_mtime |-> files[source_file].backup.time]
    ELSE [op |-> "getattr", path |-> name, result |-> -ENOENT]

xorfs_operation_getattr(name) ==
    /\ pc = "serving"
    /\ reply' = Attributes(name, xorfs_get_source_file_by_file_name(name))
    /\ UNCHANGED <<dir, dirpos, pc, files, count, freed, handles, return_value, li, fpos, thr>>

(***************************************************************************)
(* Bytes and buffers                                                       *)
(***************************************************************************)
\* the indeterminate value of a byte that was never written
Garbage == 0 - 1

RECURSIVE BitXor(_, _)
BitXor(a, b) ==
    IF a = 0 THEN b
    ELSE IF b = 0 THEN a
    ELSE (((a % 2) + (b % 2)) % 2) + 2 * BitXor(a \div 2, b \div 2)

\* first ^= second on one byte
XorByte(a, b) == IF a = Garbage \/ b = Garbage THEN Garbage ELSE BitXor(a, b)

Min(a, b) == IF a < b THEN a ELSE b

Uninitialized(size) == [i \in 1..size |-> Garbage]

\* buf seen as an allocation of `size` bytes
Padded(buf, size) == [i \in 1..size |-> IF i <= Len(buf) THEN buf[i] ELSE Garbage]

uintmax_size == 8

\* XorChunks with a loop that stops one word early
XorChunks_OneShort(first, second, size) ==
    [i \in 1..Len(first) |->
        IF (i - 1) \div uintmax_size < (size \div uintmax_size) - 1
        THEN XorByte(first[i], second[i]) ELSE first[i]]

\* "Use uintmax_t chunks": size / uintmax_size words, each of uintmax_size bytes
XorChunks(first, second, size) ==
    [i \in 1..Len(first) |->
        IF (i - 1) \div uintmax_size < size \div uintmax_size
        THEN XorByte(first[i], second[i]) ELSE first[i]]

\* XorBytes with a loop that stops one byte early
XorBytes_OneShort(first, second, size) ==
    [i \in 1..Len(first) |->
        IF i - 1 < size - 1 THEN XorByte(first[i], second[i]) ELSE first[i]]

\* "Go byte-by-byte"
XorBytes(first, second, size) ==
    [i \in 1..Len(first) |-> IF i - 1 < size THEN XorByte(first[i], second[i]) ELSE first[i]]

\* "Xor buffers"
XorBuffers(first, second, size) ==
    IF size % uintmax_size = 0
    THEN XorChunks(first, second, size)
    ELSE XorBytes(first, second, size)

(***************************************************************************)
(* xorfs_read_plain and xorfs_read_backup, one stdio call at a time        *)
(***************************************************************************)
Threads == {1, 2}

\* request offsets: the start, the last byte and the end of the longest file
Offsets == {0, MaxLen - 1, MaxLen}

\* request sizes: one byte, the longest file, and one machine word
Sizes == {1, MaxLen, uintmax_size}

Idle == [state |-> "idle", path |-> <<>>, offset |-> 0, size |-> 0, stack |-> <<>>,
         result |-> 0, data |-> <<>>]

\* the frame of a call xorfs_read_backup(source_file, buffer, offset, size)
Frame(source_file, offset, size) ==
    [source_file |-> source_file, offset |-> offset, size |-> size, at |-> "fseek",
     buffer |-> Uninitialized(size), read_bytes |-> 0, result |-> 0]

Top(t) == thr[t].stack[Len(thr[t].stack)]

SetTop(t, frame) == [thr EXCEPT ![t].stack[Len(thr[t].stack)] = frame]

\* the stored bytes behind a FILE handle
Stored(fd) == dir[fd].data

\* what fread(buffer, 1, size, fd) obtains at position pos
Available(fd, pos, size) ==
    IF pos >= Len(Stored(fd)) THEN 0 ELSE Min(size, Len(Stored(fd)) - pos)

Request(name, offset, size, source_file) ==
    IF source_file = NULL
    THEN [Idle EXCEPT !.state = "done", !.path = name, !.offset = offset,
                      !.size = size, !.result = -ENOENT]
    ELSE [Idle EXCEPT !.state = "running", !.path = name, !.offset = offset,
                      !.size = size, !.stack = <<Frame(source_file, offset, size)>>]

\* xorfs_operation_read up to the call of xorfs_read_backup
xorfs_operation_read(t, name, offset, size) ==
    /\ pc = "serving"
    /\ thr[t].state = "idle"
    /\ thr' = [thr EXCEPT ![t] =
                  Request(name, offset, size, xorfs_get_source_file_by_file_name(name))]
    /\ UNCHANGED <<dir, dirpos, pc, files, count, freed, handles, return_value, li,
                   fpos, reply>>

Handle(frame) == files[frame.source_file].file_descriptor

\* fseek(source_file->file_descriptor, offset, SEEK_SET)
Fseek(t) ==
    /\ pc = "serving"
    /\ thr[t].state = "running"
    /\ Top(t).at = "fseek"
    /\ fpos' = [fpos EXCEPT ![Handle(Top(t))] = Top(t).offset]
    /\ thr' = SetTop(t, [Top(t) EXCEPT !.at = "fread"])
    /\ UNCHANGED <<dir, dirpos, pc, files, count, freed, handles, return_value, li, reply>>

\* the frame after fread() has obtained n bytes at position pos of handle fd
Filled(frame, fd, pos, n) ==
    [frame EXCEPT !.read_bytes = n,
                  !.buffer = [i \in 1..frame.size |->
                                 IF i <= n THEN Stored(fd)[pos + i] ELSE frame.buffer[i]]]

\* the frame after fread() at the handle's current position
AfterFread(frame) ==
    Filled(frame, Handle(frame), fpos[Handle(frame)],
           Available(Handle(frame), fpos[Handle(frame)], frame.size))

\* fread() moves the handle's position past the bytes it obtained
Advance(frame) ==
    [fpos EXCEPT ![Handle(frame)] =
        @ + Available(Handle(frame), fpos[Handle(frame)], frame.size)]

IsPlain(frame) == files[frame.source_file].backup.xor_against_number = U32(0)

Returned(frame, result) == [frame EXCEPT !.at = "returned", !.result = result]

ReturnCount(t, frame) == thr' = SetTop(t, Returned(frame, frame.read_bytes))

\* fread() of a plain image: the data is in the buffer, return the count
FreadPlain(t) ==
    /\ pc = "serving"
    /\ thr[t].state = "running"
    /\ Top(t).at = "fread"
    /\ IsPlain(Top(t))
    /\ fpos' = Advance(Top(t))
    /\ ReturnCount(t, AfterFread(Top(t)))
    /\ UNCHANGED <<dir, dirpos, pc, files, count, freed, handles, return_value, li, reply>>

Call(t, frame) ==
    thr' = [thr EXCEPT ![t].stack =
               Append(SubSeq(thr[t].stack, 1, Len(thr[t].stack) - 1),
                      [frame EXCEPT !.at = "called"])
                 \o <<Frame(files[frame.source_file].backup.xor_against_source_file,
                            frame.offset, frame.read_bytes)>>]

\* fread() of a xored image, malloc of the second buffer and the recursive
\* call xorfs_read_backup(xor_against_source_file, second_buffer, offset, read_bytes)
FreadXored(t) ==
    /\ pc = "serving"
    /\ thr[t].state = "running"
    /\ Top(t).at = "fread"
    /\ ~IsPlain(Top(t))
    /\ Len(thr[t].stack) < StackLimit
    /\ fpos' = Advance(Top(t))
    /\ Call(t, AfterFread(Top(t)))
    /\ UNCHANGED <<dir, dirpos, pc, files, count, freed, handles, return_value, li, reply>>

\* the recursion has used up the thread's stack: the process dies
StackOverflow(t) ==
    /\ pc = "serving"
    /\ thr[t].state = "running"
    /\ Top(t).at = "fread"
    /\ ~IsPlain(Top(t))
    /\ Len(thr[t].stack) = StackLimit
    /\ thr' = [thr EXCEPT ![t].state = "crashed"]
    /\ pc' = "crashed"
    /\ UNCHANGED <<dir, dirpos, files, count, freed, handles, return_value, li, fpos, reply>>

\* the recursion has used up the heap: malloc returns NULL
OutOfMemory(t) ==
    /\ pc = "serving"
    /\ thr[t].state = "running"
    /\ Top(t).at = "fread"
    /\ ~IsPlain(Top(t))
    /\ Len(thr[t].stack) = StackLimit
    /\ fpos' = Advance(Top(t))
    /\ thr' = SetTop(t, Returned(AfterFread(Top(t)), -ENOMEM))
    /\ UNCHANGED <<dir, dirpos, pc, files, count, freed, handles, return_value, li, reply>>

\* AfterCall that returns the requested size instead of read_bytes
AfterCall_ReturnsSize(caller, r, second) ==
    IF r < 0 THEN Returned(caller, r)
    ELSE IF r # caller.read_bytes THEN Returned(caller, -EIO)
    ELSE Returned([caller EXCEPT !.buffer =
                       XorBuffers(caller.buffer, Padded(second, caller.size), caller.size)],
                  caller.size)

\* AfterCall that passes a short count of the predecessor on as the result
AfterCall_ReturnsShort(caller, r, second) ==
    IF r < 0 THEN Returned(caller, r)
    ELSE Returned([caller EXCEPT !.buffer =
                       XorBuffers(caller.buffer, Padded(second, caller.size), caller.size)],
                  Min(r, caller.read_bytes))

\* the caller's frame once the recursive call has returned r with `second`
\* in the second buffer
AfterCall(caller, r, second) ==
    IF r < 0 THEN Returned(caller, r)
    ELSE IF r # caller.read_bytes THEN Returned(caller, -EIO)
    ELSE Returned([caller EXCEPT !.buffer =
                       XorBuffers(caller.buffer, Padded(second, caller.size), caller.size)],
                  caller.read_bytes)

\* a recursive call returns into "Read from the second file"
ReturnToCaller(t) ==
    /\ pc = "serving"
    /\ thr[t].state = "running"
    /\ Top(t).at = "returned"
    /\ Len(thr[t].stack) > 1
    /\ thr' = [thr EXCEPT ![t].stack =
                  Append(SubSeq(thr[t].stack, 1, Len(thr[t].stack) - 2),
                         AfterCall(thr[t].stack[Len(thr[t].stack) - 1],
                                   Top(t).result, Top(t).buffer))]
    /\ UNCHANGED <<dir, dirpos, pc, files, count, freed, handles, return_value, li, fpos,
                   reply>>

\* the outermost call returns and xorfs_operation_read hands its result to FUSE
ReturnToFuse(t) ==
    /\ pc = "serving"
    /\ thr[t].state = "running"
    /\ Top(t).at = "returned"
    /\ Len(thr[t].stack) = 1
    /\ thr' = [thr EXCEPT ![t].state = "done",
                          ![t].stack = <<>>,
                          ![t].result = Top(t).result,
                          ![t].data = IF Top(t).result > 0
                                      THEN SubSeq(Top(t).buffer, 1, Top(t).result)
                                      ELSE <<>>]
    /\ UNCHANGED <<dir, dirpos, pc, files, count, freed, handles, return_value, li, fpos,
                   reply>>

(***************************************************************************)
(* Directories the model scans                                             *)
(***************************************************************************)
Xor(stem) == stem \o XORFS_SOURCE_FILE_EXTENSION

a_1 == Xor(<<"a", "-", "1">>)
a_2 == Xor(<<"a", "-", "2">>)
a_3 == Xor(<<"a", "-", "3">>)
a_1x == Xor(<<"a", "-", "1", "x">>)
a_1x1 == Xor(<<"a", "-", "1", "x", "1">>)
a_1x2 == Xor(<<"a", "-", "1", "x", "2">>)
a_2x1 == Xor(<<"a", "-", "2", "x", "1">>)
a_3x2 == Xor(<<"a", "-", "3", "x", "2">>)
b_2x1 == Xor(<<"b", "-", "2", "x", "1">>)
b_1x1 == Xor(<<"b", "-", "1", "x", "1">>)
a_4294967297 == Xor(<<"a", "-", "4", "2", "9", "4", "9", "6", "7", "2", "9", "7">>)
a_2x4294967297 ==
    Xor(<<"a", "-", "2", "x", "4", "2", "9", "4", "9", "6", "7", "2", "9", "7">>)

\* the entries of the directories whose build is explored step by step
BuildEntries ==
    { RegularFile(a_1, <<1, 0, 1>>, 11),
      RegularFile(a_2, <<0, 1>>, 12),
      RegularFile(a_2x1, <<1, 1>>, 13),
      RegularFile(a_1x2, <<0>>, 14),
      RegularFile(a_1x1, <<1>>, 15),
      RegularFile(a_1x, <<>>, 16),
      RegularFile(b_2x1, <<0, 0>>, 17),
      RegularFile(<<"a", "-", "1", ".", "d", "a", "t">>, <<1>>, 18),
      Dirent(<<".">>, "DT_DIR", TRUE, <<>>, 19),
      Dirent(a_3, "DT_UNKNOWN", FALSE, <<1>>, 20) }

SeqsUpTo(S, n) == UNION {[1..k -> S] : k \in 0..n}

Directories == {d \in SeqsUpTo(BuildEntries, MaxFiles) : DistinctNames(d)}

\* every candidate name of at most MaxStem characters before the extension,
\* and two names whose numbers do not fit 32 bits
Alphabet == {"a", "-", "1", "2", "x", "."}

CandidateNames ==
    {Xor(stem) : stem \in SeqsUpTo(Alphabet, MaxStem) \ {<<>>}}
        \cup {a_4294967297, a_2x4294967297}

Byte == {0, 1}

Contents == SeqsUpTo(Byte, MaxLen)

\* the chains whose reads are explored: name lists in readdir order
ChainShapes ==
    { <<a_1>>, <<a_1, a_2x1>>, <<a_2x1, a_1>>, <<a_1, a_2x1, a_3x2>>,
      <<a_1x1>>, <<a_1x2, a_2x1>> }

ChainDirectories ==
    UNION { { [k \in 1..Len(shape) |-> RegularFile(shape[k], c[k], k)] :
                c \in [1..Len(shape) -> Contents] } : shape \in ChainShapes }

\* a base and a delta of one machine word each, so that a request of
\* uintmax_size bytes obtains all of them
WordChain ==
    << RegularFile(a_1, <<0, 1, 1, 0, 1, 0, 0, 1>>, 1),
       RegularFile(a_2x1, <<1, 1, 0, 0, 1, 0, 1, 0>>, 2) >>

\* the directory of the concurrent reads: a base, a delta against it and a
\* file xored against itself
SharedBase ==
    << RegularFile(a_1, <<0, 1>>, 1), RegularFile(a_2x1, <<1, 1>>, 2),
       RegularFile(b_1x1, <<1>>, 3) >>

(***************************************************************************)
(* Specifications                                                          *)
(***************************************************************************)
\* main() is about to call xorfs_open_source_files on directory d
Starting(d) ==
    /\ dir = d
    /\ dirpos = 0
    /\ pc = "scan"
    /\ files = <<>>
    /\ count = 0
    /\ freed = FALSE
    /\ handles = {}
    /\ return_value = -1
    /\ li = 0
    /\ fpos = [k \in 1..Len(d) |-> 0]
    /\ thr = [t \in Threads |-> Idle]
    /\ reply = [op |-> "none"]

\* fuse_main is serving the graph B that the build made of directory d
Served(d, B) ==
    /\ B.pc = "serving"
    /\ dir = d
    /\ dirpos = Len(d)
    /\ pc = B.pc
    /\ files = B.files
    /\ count = B.count
    /\ freed = B.freed
    /\ handles = B.handles
    /\ return_value = B.return_value
    /\ li = B.count
    /\ fpos = [k \in 1..Len(d) |-> 0]
    /\ thr = [t \in Threads |-> Idle]
    /\ reply = [op |-> "none"]

BuildStep == ReadDirEntry \/ EndOfDirectory \/ LinkStep \/ BuildDone

Lookups == xorfs_operation_readdir \/ \E name \in RequestNames : xorfs_operation_getattr(name)

ReadStep(t) ==
    \/ \E name \in RequestNames, offset \in Offsets, size \in Sizes :
           xorfs_operation_read(t, name, offset, size)
    \/ Fseek(t)
    \/ FreadPlain(t)
    \/ FreadXored(t)
    \/ StackOverflow(t)
    \/ OutOfMemory(t)
    \/ ReturnToCaller(t)
    \/ ReturnToFuse(t)

\* the build of a directory of up to MaxFiles entries, then lookups
Init == \E d \in Directories : Starting(d)

Next == BuildStep \/ Lookups

Spec == Init /\ [][Next]_vars

\* the build of a directory holding one candidate file
InitName == \E name \in CandidateNames : Starting(<<RegularFile(name, <<>>, 1)>>)

SpecName == InitName /\ [][Next]_vars

\* one request at a time (fuse -s): a single worker reads from a served chain
InitRead == \E d \in ChainDirectories \cup {WordChain} : Served(d, Build(d))

NextRead == ReadStep(1)

SpecRead == InitRead /\ [][NextRead]_vars

\* the default multi-threaded loop: two workers read concurrently
InitThreads == Served(SharedBase, Build(SharedBase))

NextThreads == \E t \in Threads : ReadStep(t)

SpecThreads == InitThreads /\ [][NextThreads]_vars

(***************************************************************************)
(* Notions the properties are stated with                                  *)
(***************************************************************************)
Max(a, b) == IF a > b THEN a ELSE b

Pred(i) == files[i].backup.xor_against_source_file

PlainEntry(i) == files[i].backup.xor_against_number = U32(0)

OwnBytes(i) == dir[files[i].file_descriptor].data

RECURSIVE ReachesBaseWithin(_, _)
\* entry i reaches a plain entry in at most `steps` predecessor links
ReachesBaseWithin(i, steps) ==
    \/ PlainEntry(i)
    \/ /\ steps > 0
       /\ Pred(i) # NULL
       /\ ReachesBaseWithin(Pred(i), steps - 1)

ReachesBase(i) == ReachesBaseWithin(i, count)

RECURSIVE UniformChain(_, _, _)
\* entry i and all its ancestors down to a plain entry store exactly S bytes
UniformChain(i, S, steps) ==
    /\ Len(OwnBytes(i)) = S
    /\ \/ PlainEntry(i)
       \/ /\ steps > 0
          /\ Pred(i) # NULL
          /\ UniformChain(Pred(i), S, steps - 1)

\* position-wise XOR of two equally long sequences of bits
BitsXor(a, b) == [i \in 1..Len(a) |-> IF a[i] = b[i] THEN 0 ELSE 1]

Bits(L) == [1..L -> Byte]

\* the entry a request names
Requested(t) == xorfs_get_source_file_by_file_name(thr[t].path)

(***************************************************************************)
(* C1  Reconstruction correctness.  A read of offset 0 and length L on a   *)
(* delta whose stored bytes are B XOR D, with the base B of length L as    *)
(* predecessor, returns the L bytes of D; on a delta storing D1 XOR D2     *)
(* whose predecessor stores B XOR D1 against the base B it returns D2.     *)
(***************************************************************************)
TwoLevelCase(t, e) ==
    /\ ~PlainEntry(e)
    /\ PlainEntry(Pred(e))
    /\ Len(OwnBytes(e)) = thr[t].size
    /\ Len(OwnBytes(Pred(e))) = thr[t].size

ThreeLevelCase(t, e) ==
    /\ ~PlainEntry(e)
    /\ ~PlainEntry(Pred(e))
    /\ PlainEntry(Pred(Pred(e)))
    /\ Len(OwnBytes(e)) = thr[t].size
    /\ Len(OwnBytes(Pred(e))) = thr[t].size
    /\ Len(OwnBytes(Pred(Pred(e)))) = thr[t].size

ReconstructsTwoLevel(t, e) ==
    \A D \in Bits(thr[t].size) :
        OwnBytes(e) = BitsXor(OwnBytes(Pred(e)), D)
            => thr[t].result = thr[t].size /\ thr[t].data = D

ReconstructsThreeLevel(t, e) ==
    \A D1, D2 \in Bits(thr[t].size) :
        /\ OwnBytes(Pred(e)) = BitsXor(OwnBytes(Pred(Pred(e))), D1)
        /\ OwnBytes(e) = BitsXor(D1, D2)
        => thr[t].result = thr[t].size /\ thr[t].data = D2

C1_Reconstruction ==
    \A t \in Threads :
        (thr[t].state = "done" /\ thr[t].offset = 0 /\ Requested(t) # NULL) =>
            /\ TwoLevelCase(t, Requested(t)) => ReconstructsTwoLevel(t, Requested(t))
            /\ ThreeLevelCase(t, Requested(t)) => ReconstructsThreeLevel(t, Requested(t))

\* a finished read of a whole three-level delta whose result differs from
\* the bytes the delta stores
C1_Witness ==
    /\ thr[1].state = "done"
    /\ thr[1].offset = 0
    /\ thr[1].size = MaxLen
    /\ Requested(1) # NULL
    /\ ThreeLevelCase(1, Requested(1))
    /\ thr[1].data # OwnBytes(Requested(1))
    /\ thr[1].data # OwnBytes(Pred(Requested(1)))

(***************************************************************************)
(* C2  Concurrent reads do not interfere: every request returns the count  *)
(* and the bytes it would return if it ran alone.                          *)
(***************************************************************************)
RECURSIVE Alone(_, _, _, _)
\* the returned frame of xorfs_read_backup(i, offset, size) when no other
\* request touches the handles: every fread starts at the offset just set
Alone(i, offset, size, steps) ==
    IF PlainEntry(i) \/ steps = 0
    THEN Returned(Filled(Frame(i, offset, size), files[i].file_descriptor, offset,
                         Available(files[i].file_descriptor, offset, size)),
                  Available(files[i].file_descriptor, offset, size))
    ELSE AfterCall(Filled(Frame(i, offset, size), files[i].file_descriptor, offset,
                          Available(files[i].file_descriptor, offset, size)),
                   Alone(Pred(i), offset,
                         Available(files[i].file_descriptor, offset, size), steps - 1).result,
                   Alone(Pred(i), offset,
                         Available(files[i].file_descriptor, offset, size), steps - 1).buffer)

AsAlone(t, frame) ==
    /\ thr[t].result = frame.result
    /\ thr[t].data = IF frame.result > 0 THEN SubSeq(frame.buffer, 1, frame.result) ELSE <<>>

C2_NoInterference ==
    \A t \in Threads :
        (thr[t].state = "done" /\ Requested(t) # NULL /\ ReachesBase(Requested(t)))
            => AsAlone(t, Alone(Requested(t), thr[t].offset, thr[t].size, count))

(***************************************************************************)
(* C3  Cycle rejection at build: a directory whose resolved predecessor    *)
(* relation has a cycle, or an entry that reaches no base within as many   *)
(* steps as there are entries, is never served.                            *)
(***************************************************************************)
C3_CycleRejected ==
    pc = "serving" => \A i \in 1..count : ReachesBase(i)

(***************************************************************************)
(* C4  Every read terminates: on a graph that the build accepted the       *)
(* recursion never goes deeper than there are loaded entries, and no read  *)
(* ends other than by returning a count or an error.                       *)
(***************************************************************************)
C4_ReadTerminates ==
    \A t \in Threads :
        /\ Len(thr[t].stack) <= count
        /\ thr[t].state # "crashed"

(***************************************************************************)
(* The file-name grammar, read off the name itself                         *)
(*   <chain> '-' <n> ( 'x' <m> )? '.xor'                                   *)
(* with 1-based positions; 0 stands for "no such position"                 *)
(***************************************************************************)
HasDigit(name) == \E i \in 1..Len(name) : IsDigit(name[i])

FirstDigit(name) ==
    IF HasDigit(name)
    THEN CHOOSE i \in 1..Len(name) :
             IsDigit(name[i]) /\ \A j \in 1..(i - 1) : ~IsDigit(name[j])
    ELSE 0

\* the position after the digit run that starts at position i
RunEnd(name, i) ==
    CHOOSE e \in i..(Len(name) + 1) :
        /\ \A j \in i..(e - 1) : IsDigit(name[j])
        /\ e = Len(name) + 1 \/ ~IsDigit(name[e])

Rest(name, i) == SubSeq(name, i, Len(name))

NumberEnd(name) == RunEnd(name, FirstDigit(name))

\* an 'x' follows the first number
HasX(name) == HasDigit(name) /\ At(name, NumberEnd(name) - 1) = "x"

\* a digit follows that 'x'
HasSecondNumber(name) == HasX(name) /\ IsDigit(At(name, NumberEnd(name)))

\* where the numbers of the name end
NumbersEnd(name) ==
    IF HasSecondNumber(name) THEN RunEnd(name, NumberEnd(name) + 1) ELSE NumberEnd(name)

\* the three malformations: no digit at all, a non-digit after the 'x', or
\* something other than '.' + extension after the numbers
Malformed(name) ==
    \/ ~HasDigit(name)
    \/ HasX(name) /\ ~HasSecondNumber(name)
    \/ HasDigit(name) /\ Rest(name, NumbersEnd(name)) # XORFS_SOURCE_FILE_EXTENSION

\* "<chain>-<n>.xor"
PlainForm(name) ==
    /\ FirstDigit(name) >= 2
    /\ name[FirstDigit(name) - 1] = "-"
    /\ Rest(name, NumberEnd(name)) = XORFS_SOURCE_FILE_EXTENSION

\* "<chain>-<n>x<m>.xor"
XoredForm(name) ==
    /\ FirstDigit(name) >= 2
    /\ name[FirstDigit(name) - 1] = "-"
    /\ HasSecondNumber(name)
    /\ Rest(name, NumbersEnd(name)) = XORFS_SOURCE_FILE_EXTENSION

ChainOf(name) == SubSeq(name, 1, FirstDigit(name) - 2)

NumberOf(name) == SubSeq(name, FirstDigit(name), NumberEnd(name) - 1)

SecondNumberOf(name) == SubSeq(name, NumberEnd(name) + 1, NumbersEnd(name) - 1)

RECURSIVE StripZeros(_)
StripZeros(digits) ==
    IF Len(digits) > 1 /\ Head(digits) = "0" THEN StripZeros(Rest(digits, 2)) ELSE digits

RECURSIVE DecimalDigits(_)
\* the decimal digits of the unsigned int u = <<lo, hi>>, none for zero
DecimalDigits(u) ==
    IF u = <<0, 0>> THEN <<>>
    ELSE Append(DecimalDigits(<<((u[2] % 10) * Limb + u[1]) \div 10, u[2] \div 10>>),
                DigitChar(((u[2] % 10) * Limb + u[1]) % 10))

Decimal(u) == IF u = <<0, 0>> THEN <<"0">> ELSE DecimalDigits(u)

\* entry i is a complete record of the entry array
Admitted(i) ==
    /\ i \in 1..count
    /\ ~freed
    /\ pc # "crashed"
    /\ files[i].backup.output_file_name # <<>>

AllWellFormed == \A i \in 1..count : PlainForm(files[i].name) \/ XoredForm(files[i].name)

(***************************************************************************)
(* C5  Duplicate rejection: a directory in which two candidate files parse *)
(* to the same (chain_name, sequence_number) is not served.                *)
(***************************************************************************)
C5_DuplicateRejected ==
    (pc = "serving" /\ AllWellFormed) =>
        \A i, j \in 1..count :
            (/\ files[i].backup.name = files[j].backup.name
             /\ files[i].backup.number = files[j].backup.number) => i = j

(***************************************************************************)
(* C6  Broken-chain detection: a delta whose predecessor number matches no *)
(* loaded entry of its chain makes the build fail, and after that failure  *)
(* the entry set is empty (count 0) and every opened handle is closed.     *)
(***************************************************************************)
Resolvable(i) ==
    \E j \in 1..count :
        /\ files[j].backup.name = files[i].backup.name
        /\ files[j].backup.number = files[i].backup.xor_against_number

C6_BrokenChain ==
    /\ pc = "serving" => \A i \in 1..count : PlainEntry(i) \/ Resolvable(i)
    /\ (pc = "exited" /\ return_value = 6) => (count = 0 /\ handles = {})

(***************************************************************************)
(* C7  Short-read propagation: on a chain whose entries all store S bytes, *)
(* a read with offset + length > S returns max(0, S - offset), and so does *)
(* the recursive read at every level of the chain.                         *)
(***************************************************************************)
ShortRead(t) ==
    /\ thr[t].state \in {"running", "done"}
    /\ Requested(t) # NULL
    /\ UniformChain(Requested(t), Len(OwnBytes(Requested(t))), count)
    /\ thr[t].offset + thr[t].size > Len(OwnBytes(Requested(t)))

Remainder(t) == Max(0, Len(OwnBytes(Requested(t))) - thr[t].offset)

C7_ShortRead ==
    \A t \in Threads :
        ShortRead(t) =>
            /\ thr[t].state = "done" => thr[t].result = Remainder(t)
            /\ \A k \in 1..Len(thr[t].stack) :
                   thr[t].stack[k].at = "returned" => thr[t].stack[k].result = Remainder(t)

\* the middle entry of a three-level chain of equally long files has just
\* returned a single remaining byte of a one-word request
C7_Witness ==
    /\ thr[1].state = "running"
    /\ ShortRead(1)
    /\ ~PlainEntry(Requested(1))
    /\ ~PlainEntry(Pred(Requested(1)))
    /\ thr[1].size = uintmax_size
    /\ Len(thr[1].stack) = 2
    /\ thr[1].stack[2].at = "returned"
    /\ thr[1].stack[2].result = 1

(***************************************************************************)
(* C8  Malformed-name rejection: a candidate name without any digit, with  *)
(* a non-digit after 'x', or without '.' + extension right after the       *)
(* numbers is never admitted as an entry and never served.                 *)
(***************************************************************************)
C8_MalformedRejected ==
    /\ \A i \in 1..count : Admitted(i) => ~Malformed(files[i].name)
    /\ pc = "serving" => \A k \in 1..Len(dir) : ~Malformed(dir[k].name)

(***************************************************************************)
(* C9  Parser round-trip: "<chain>-<n>.xor" is parsed to chain_name        *)
(* <chain>, sequence_number n, predecessor_number 0 and external_name      *)
(* "<chain>-<n>.dat"; "<chain>-<n>x<m>.xor" to predecessor_number m and    *)
(* the same external name.                                                 *)
(***************************************************************************)
RoundTrip(name, backup) ==
    /\ backup.name = ChainOf(name)
    /\ Decimal(backup.number) = StripZeros(NumberOf(name))
    /\ backup.output_file_name =
           ChainOf(name) \o <<"-">> \o NumberOf(name) \o DAT_EXTENSION
    /\ PlainForm(name) => backup.xor_against_number = U32(0)
    /\ XoredForm(name) =>
           Decimal(backup.xor_against_number) = StripZeros(SecondNumberOf(name))

C9_RoundTrip ==
    \A k \in 1..Len(dir) :
        (PlainForm(dir[k].name) \/ XoredForm(dir[k].name)) =>
            /\ pc \notin {"crashed"}
            /\ return_value # 5
            /\ \A i \in 1..count :
                   (Admitted(i) /\ files[i].name = dir[k].name)
                       => RoundTrip(dir[k].name, files[i].backup)

(***************************************************************************)
(* C10  Lookup isolation and name uniqueness: in a served graph the        *)
(* external names are pairwise distinct, the listing of "/" carries one    *)
(* external name per loaded file, and the lookup of an entry's external    *)
(* name returns that entry.                                                *)
(***************************************************************************)
C10_LookupIsolation ==
    (pc = "serving" /\ AllWellFormed) =>
        /\ \A i, j \in 1..count :
               files[i].backup.output_file_name = files[j].backup.output_file_name => i = j
        /\ \A i \in 1..count :
               xorfs_get_source_file_by_file_name(files[i].backup.output_file_name) = i
        /\ reply.op = "readdir" =>
               /\ Len(reply.names) = count + 1
               /\ \A i \in 1..count : reply.names[i] = files[i].backup.output_file_name

(***************************************************************************)
(* C11  Attribute independence: getattr on the external name of a loaded   *)
(* entry reports the size and the modification time of that entry's own    *)
(* stored file, never those of another entry; getattr on a name that no    *)
(* entry carries returns not-found.                                        *)
(***************************************************************************)
OwnSize(i) == Len(OwnBytes(i))

OwnTime(i) == dir[files[i].file_descriptor].mtime

Carries(i, name) == files[i].backup.output_file_name = name

C11_AttributeIndependence ==
    (pc = "serving" /\ AllWellFormed /\ reply.op = "getattr") =>
        /\ \A i \in 1..count :
               Carries(i, reply.path) =>
                   /\ reply.result = 0
                   /\ reply.st_size = OwnSize(i)
                   /\ reply.st_mtime = OwnTime(i)
        /\ (\A i \in 1..count : ~Carries(i, reply.path)) => reply.result = -ENOENT

(***************************************************************************)
(* C12  Chain mismatch: when a delta obtains n > 0 bytes of its own and    *)
(* its predecessor supplies fewer than n bytes for the same offset, the    *)
(* read returns -EIO at the level of the mismatch, and every level above   *)
(* it, up to the request itself, returns that same -EIO.                   *)
(***************************************************************************)
\* what fread obtains from entry i's own file for (offset, size)
Obtains(i, offset, size) == Available(files[i].file_descriptor, offset, size)

RECURSIVE Mismatch(_, _, _, _)
\* below entry i, which obtained n bytes, some delta of the chain obtained
\* more bytes than its predecessor's own file holds at that offset
Mismatch(i, offset, n, steps) ==
    /\ ~PlainEntry(i)
    /\ steps > 0
    /\ \/ n > 0 /\ Obtains(Pred(i), offset, n) < n
       \/ Mismatch(Pred(i), offset, Obtains(Pred(i), offset, n), steps - 1)

C12_ChainMismatch ==
    \A t \in Threads :
        /\ (/\ thr[t].state = "done"
            /\ Requested(t) # NULL
            /\ ReachesBase(Requested(t))
            /\ Mismatch(Requested(t), thr[t].offset,
                        Obtains(Requested(t), thr[t].offset, thr[t].size), count))
               => thr[t].result = -EIO
        /\ \A k \in 1..Len(thr[t].stack) :
               (/\ thr[t].stack[k].at = "returned"
                /\ ReachesBase(thr[t].stack[k].source_file)
                /\ Mismatch(thr[t].stack[k].source_file, thr[t].stack[k].offset,
                            thr[t].stack[k].read_bytes, count))
                   => thr[t].stack[k].result = -EIO

\* a request on the top of a three-level chain has ended with -EIO because
\* the base is shorter than what the middle delta obtained
C12_Witness ==
    /\ thr[1].state = "done"
    /\ thr[1].result = -EIO
    /\ Requested(1) # NULL
    /\ ~PlainEntry(Requested(1))
    /\ ~PlainEntry(Pred(Requested(1)))
    /\ PlainEntry(Pred(Pred(Requested(1))))
    /\ Obtains(Pred(Requested(1)), thr[1].offset, thr[1].size)
           = Obtains(Requested(1), thr[1].offset, thr[1].size)
    /\ Len(OwnBytes(Pred(Pred(Requested(1))))) > thr[1].offset
    /\ Obtains(Pred(Pred(Requested(1))), thr[1].offset, thr[1].size)
           < Obtains(Requested(1), thr[1].offset, thr[1].size)

(***************************************************************************)
(* C13  Chunking equivalence: whether the requested size is a multiple of  *)
(* sizeof(uintmax_t) (word path) or not (byte path), and also when fewer   *)
(* bytes than requested are obtained, byte i < n of a delta's result is    *)
(* own_stored[offset + i] XOR reconstructed_predecessor[offset + i].       *)
(***************************************************************************)
RECURSIVE Reconstructed(_, _, _)
\* the byte at 0-based position pos of entry i's reconstructed image
Reconstructed(i, pos, steps) ==
    IF PlainEntry(i) \/ steps = 0 THEN OwnBytes(i)[pos + 1]
    ELSE IF OwnBytes(i)[pos + 1] = Reconstructed(Pred(i), pos, steps - 1) THEN 0 ELSE 1

WordPath(size) == size % uintmax_size = 0

C13_ChunkingEquivalence ==
    \A t \in Threads :
        (/\ thr[t].state = "done"
         /\ Requested(t) # NULL
         /\ ~PlainEntry(Requested(t))
         /\ thr[t].result > 0)
            => /\ Len(thr[t].data) = thr[t].result
               /\ \A k \in 0..(thr[t].result - 1) :
                      thr[t].data[k + 1] = Reconstructed(Requested(t), thr[t].offset + k, count)

\* a word-path request on a delta has returned fewer bytes than requested,
\* and they differ from the bytes the delta stores
C13_Witness ==
    /\ thr[1].state = "done"
    /\ Requested(1) # NULL
    /\ ~PlainEntry(Requested(1))
    /\ WordPath(thr[1].size)
    /\ thr[1].result > 1
    /\ thr[1].result < thr[1].size
    /\ \A k \in 1..thr[1].result : thr[1].data[k] # OwnBytes(Requested(1))[thr[1].offset + k]

\* the same on the byte path
C13_WitnessBytePath ==
    /\ thr[1].state = "done"
    /\ Requested(1) # NULL
    /\ ~PlainEntry(Requested(1))
    /\ ~WordPath(thr[1].size)
    /\ thr[1].result > 0
    /\ thr[1].result < thr[1].size
    /\ thr[1].data[1] # OwnBytes(Requested(1))[thr[1].offset + 1]

\* a word-path request on a delta has obtained the whole machine word
C13_WitnessWholeWord ==
    /\ thr[1].state = "done"
    /\ Requested(1) # NULL
    /\ ~PlainEntry(Requested(1))
    /\ WordPath(thr[1].size)
    /\ thr[1].result = thr[1].size
    /\ thr[1].data # OwnBytes(Requested(1))

(***************************************************************************)
(* C14  Predecessor resolution: in a served graph an entry has no          *)
(* predecessor link exactly when its predecessor number is 0; a link       *)
(* points to a loaded entry of the same chain whose sequence number is the *)
(* predecessor number, and no other loaded entry has that chain name and   *)
(* sequence number.                                                        *)
(***************************************************************************)
\* entry p has the chain name and the sequence number that entry e asks for
Answers(p, e) ==
    /\ files[p].backup.name = files[e].backup.name
    /\ files[p].backup.number = files[e].backup.xor_against_number

LinkedAsNumbered(e) ==
    /\ Pred(e) = NULL <=> PlainEntry(e)
    /\ Pred(e) # NULL => Pred(e) \in 1..count /\ Answers(Pred(e), e)

C14_PredecessorResolution ==
    (pc = "serving" /\ AllWellFormed) =>
        \A e \in 1..count :
            /\ LinkedAsNumbered(e)
            /\ Pred(e) # NULL => \A q \in 1..count : Answers(q, e) => q = Pred(e)

====
